---------------------------- MODULE Spec2Model ----------------------------
(***************************************************************************)
(* Model of prometheus-edge-hub: the MetricHub store (families, series     *)
(* queues held in Go slices), its Receive / Scrape / Debug handlers and    *)
(* the hub counters.                                                       *)
(*                                                                         *)
(* A Go slice is a record [arr, len]: arr is the backing array (its length *)
(* is the capacity), len the number of visible elements.  A *dto.Metric is *)
(* a record [label, timestampMs, value]; value doubles as the identity of  *)
(* the push that carried the sample.                                       *)
(***************************************************************************)
EXTENDS Integers, Sequences, FiniteSets, TLC

(* ------------------------------ bounds -------------------------------- *)
\* requests handled over one run of Spec (two handlers in flight)
MaxReqs == 3
\* requests handled over one run of SeqSpec (one handler at a time)
SeqMaxReqs == 3
\* requests handled over one run of PairSpec (two handlers in flight)
PairReqs == 2
\* requests handled over one run of TagSpec (one handler at a time)
TagReqs == 3
\* largest worker pool exposeMetrics is called with in RenderSpec
MaxWorkers == 2
\* largest number of downstream hubs of the distributor in DistSpec
MaxHubs == 2
\* longest queue sortedInsert is called with in InsertSpec
MaxQueue == 3
\* requests handled over one run of OverlapSpec (two handlers in flight)
OverlapReqs == 4
\* requests handled over one run of AdmitSpec (one handler at a time)
AdmitReqs == 4
\* requests handled over one run of MetaSpec (one handler at a time)
MetaReqs == 3
\* requests handled over one run of NameSpec (one handler at a time)
NameReqs == 2
\* requests handled over one run of NilSpec (one handler at a time)
NilReqs == 2

(* --------------------------- program constants ------------------------ *)
StatusOK == 200
StatusBadRequest == 400
StatusNotAcceptable == 406

(* ------------------------------ input sets ---------------------------- *)
FamNames == {"mf1", "mf2"}
\* label names in lexicographic order: the position is the rank used by "<"
LabelNames == <<"a", "b">>
LabelSets == { <<>>, << [name |-> "a", value |-> "1"] >> }
Limits == {-1, 0, 2, 3}

\* the label pairs a=1, b=2 in the two orders a client may send them
PermutedLabelSets ==
    { << [name |-> "a", value |-> "1"], [name |-> "b", value |-> "2"] >>,
      << [name |-> "b", value |-> "2"], [name |-> "a", value |-> "1"] >> }

\* client timestamps
Timestamps == {1, 2}
\* number of sample lines of a push body
PushSizes == {1, 2}

\* &dto.Metric{}: the zero metric that sortedInsert appends before shifting.
\* Its TimestampMs is nil, which is written 0 (the timestamps clients send are
\* positive).
ZeroMetric == [label |-> <<>>, timestampMs |-> 0, value |-> 0]
\* metric.TimestampMs == nil: the sample came without a timestamp
NilTimestamp(metric) == metric.timestampMs = ZeroMetric.timestampMs

RECURSIVE SetToSeq(_)
SetToSeq(S) == IF S = {} THEN <<>>
               ELSE LET x == CHOOSE y \in S : TRUE IN <<x>> \o SetToSeq(S \ {x})

RECURSIVE SumOver(_, _)
SumOver(f, S) == IF S = {} THEN 0
                 ELSE LET x == CHOOSE y \in S : TRUE IN f[x] + SumOver(f, S \ {x})

(* ------------------------------ Go slices ----------------------------- *)
Cap(s) == Len(s.arr)
Elems(s) == SubSeq(s.arr, 1, s.len)

\* []*dto.Metric{metric}: a literal of one element, len = cap = 1
SliceLit(metric) == [arr |-> <<metric>>, len |-> 1]

\* runtime growth of a full slice of pointers: the capacity doubles
GrowCap(oldCap, needed) == IF needed > 2 * oldCap THEN needed ELSE 2 * oldCap

\* append(s, el): in place when there is spare capacity, else into a new,
\* larger backing array
append(s, el) ==
    IF s.len < Cap(s)
    THEN [arr |-> [s.arr EXCEPT ![s.len + 1] = el], len |-> s.len + 1]
    ELSE LET newCap == GrowCap(Cap(s), s.len + 1)
         IN [arr |-> Elems(s) \o <<el>> \o
                      [i \in 1..(newCap - s.len - 1) |-> ZeroMetric],
             len |-> s.len + 1]

\* a sort.Search whose predicate is ">=": the smallest index whose timestamp
\* is not before t
RECURSIVE SearchNotBefore(_, _, _, _)
SearchNotBefore(i, j, data, t) ==
    IF i < j
    THEN LET h == (i + j) \div 2
         IN IF ~(data.arr[h + 1].timestampMs >= t)
            THEN SearchNotBefore(h + 1, j, data, t)
            ELSE SearchNotBefore(i, h, data, t)
    ELSE i

\* sort.Search(n, f): smallest index in 0..n for which f holds, by bisection
RECURSIVE Search(_, _, _, _)
Search(i, j, data, t) ==
    IF i < j
    THEN LET h == (i + j) \div 2
         IN IF ~(data.arr[h + 1].timestampMs > t)
            THEN Search(h + 1, j, data, t)
            ELSE Search(i, h, data, t)
    ELSE i

\* a sortedInsert that puts el behind the last sample
sortedInsertAtEnd(data, el) == append(data, el)

\* sortedInsert(data, el): the slice it returns
sortedInsert(data, el) ==
    LET index == Search(0, data.len, data, el.timestampMs)
        grown == append(data, ZeroMetric)
        \* copy(data[index+1:], data[index:]) then data[index] = el
        shifted == [i \in 1..Cap(grown) |->
                      IF i = index + 1 THEN el
                      ELSE IF i > index + 1 /\ i <= grown.len THEN grown.arr[i - 1]
                      ELSE grown.arr[i]]
    IN [arr |-> shifted, len |-> grown.len]

\* What a slice header that was NOT reassigned shows after sortedInsert ran on
\* a copy of it: with spare capacity the backing array is shared and was
\* rewritten in place, without spare capacity it is untouched.
StaleHeader(old, new) ==
    IF old.len < Cap(old) THEN [arr |-> new.arr, len |-> old.len] ELSE old

(* --------------------------- makeLabeledName -------------------------- *)
Rank(n) == CHOOSE i \in 1..Len(LabelNames) : LabelNames[i] = n

\* sort.Slice(labels, by name): insertion of each pair at its place
\* a makeLabeledName that takes the label pairs in the order they came
SortLabelsAsGiven(labels) == labels

RECURSIVE SortLabels(_)
SortLabels(labels) ==
    IF labels = <<>> THEN <<>>
    ELSE LET rest == SortLabels(Tail(labels))
             h == Head(labels)
             k == Cardinality({i \in 1..Len(rest) : Rank(rest[i].name) < Rank(h.name)})
         IN SubSeq(rest, 1, k) \o <<h>> \o SubSeq(rest, k + 1, Len(rest))

RECURSIVE LabelSuffix(_)
LabelSuffix(labels) ==
    IF labels = <<>> THEN ""
    ELSE "_" \o Head(labels).name \o "_" \o Head(labels).value \o LabelSuffix(Tail(labels))

makeLabeledName(metric, metricName) == metricName \o LabelSuffix(SortLabels(metric.label))

\* the metric as it is after makeLabeledName sorted its label slice in place
Canon(metric) == [metric EXCEPT !.label = SortLabels(metric.label)]

(* --------------------------- familyAndMetrics ------------------------- *)
RECURSIVE newFamilyMetrics(_, _, _)
newFamilyMetrics(metrics, ms, famName) ==
    IF ms = <<>> THEN metrics
    ELSE LET metric == Canon(Head(ms))
             name == makeLabeledName(metric, famName)
             next ==
               IF name \in DOMAIN metrics
               THEN LET metricQueue == metrics[name]
                    IN IF metric.timestampMs >= metricQueue.arr[metricQueue.len].timestampMs
                       THEN [metrics EXCEPT ![name] = append(metricQueue, metric)]
                       ELSE [metrics EXCEPT ![name] = sortedInsert(metricQueue, metric)]
               ELSE (name :> SliceLit(metric)) @@ metrics
         IN newFamilyMetrics(next, Tail(ms), famName)

\* newFamilyAndMetrics(family): the queues are built from family.Metric, which
\* is then cleared in the kept family
newFamilyAndMetrics(family) ==
    [family |-> [family EXCEPT !.metric = <<>>],
     metrics |-> newFamilyMetrics(<<>>, family.metric, family.name)]

RECURSIVE addMetricsLoop(_, _, _)
addMetricsLoop(metrics, ms, famName) ==
    IF ms = <<>> THEN metrics
    ELSE LET metric == Canon(Head(ms))
             metricName == makeLabeledName(metric, famName)
             next ==
               IF metricName \in DOMAIN metrics
               THEN LET queue == metrics[metricName]
                    IN IF metric.timestampMs >= queue.arr[queue.len].timestampMs
                       THEN [metrics EXCEPT ![metricName] = append(queue, metric)]
                       \* queue = sortedInsert(queue, metric): only the local is
                       \* assigned, the map keeps its old header
                       ELSE [metrics EXCEPT ![metricName] =
                                StaleHeader(queue, sortedInsert(queue, metric))]
               ELSE (metricName :> SliceLit(metric)) @@ metrics
         IN addMetricsLoop(next, Tail(ms), famName)

addMetrics(f, newMetrics) ==
    [f EXCEPT !.metrics = addMetricsLoop(f.metrics, newMetrics, f.family.name)]

\* lines 779 and 802: *metric.TimestampMs >= *queue[len(queue)-1].TimestampMs
\* dereferences the timestamp of the sample and that of the last in the queue
NilDeref(queue, metric) == NilTimestamp(metric) \/ NilTimestamp(queue.arr[queue.len])

\* the samples of ms at which the loop of newFamilyAndMetrics (fresh TRUE) or
\* of addMetrics, having handled the samples before, finds the series queued
\* and dereferences a nil timestamp
NilDerefsAt(metrics, ms, famName, fresh) ==
    {n \in DOMAIN ms :
        LET sofar == IF fresh THEN newFamilyMetrics(metrics, SubSeq(ms, 1, n - 1), famName)
                     ELSE addMetricsLoop(metrics, SubSeq(ms, 1, n - 1), famName)
            metric == Canon(ms[n])
            name == makeLabeledName(metric, famName)
        IN name \in DOMAIN sofar /\ NilDeref(sofar[name], metric)}

\* the number of samples of ms the loop handles before it panics on a nil
\* timestamp; Len(ms) when it does not panic
HandledBeforePanic(metrics, ms, famName, fresh) ==
    LET at == NilDerefsAt(metrics, ms, famName, fresh)
    IN IF at = {} THEN Len(ms)
       ELSE (CHOOSE n \in at : \A k \in at : n <= k) - 1

\* f.copyFamily(): a copy of the kept family (its Metric list is empty)
copyFamily(f) == f.family

\* a popDatapoints that empties the queues it has read
popDatapointsDraining(f, order) ==
    LET RECURSIVE Flat(_)
        Flat(o) == IF o = <<>> THEN <<>>
                   ELSE Elems(f.metrics[Head(o)]) \o Flat(Tail(o))
    IN [pulled |-> [copyFamily(f) EXCEPT !.metric = copyFamily(f).metric \o Flat(order)],
        f |-> [f EXCEPT !.metrics = [k \in DOMAIN f.metrics |->
                                        [arr |-> f.metrics[k].arr, len |-> 0]]]]

\* f.popDatapoints(): the pulled family, and the receiver as the call leaves
\* it.  order is the order in which the range over f.metrics visits the
\* series (Go leaves it unspecified).
popDatapoints(f, order) ==
    LET RECURSIVE Flat(_)
        Flat(o) == IF o = <<>> THEN <<>>
                   ELSE Elems(f.metrics[Head(o)]) \o Flat(Tail(o))
    IN [pulled |-> [copyFamily(f) EXCEPT !.metric = copyFamily(f).metric \o Flat(order)],
        f |-> f]

\* familyToString: the codec refuses a family without a name and a family
\* without metrics
familyToString(family) ==
    IF family.name = "" \/ family.metric = <<>>
    THEN [err |-> TRUE, str |-> <<>>]
    ELSE [err |-> FALSE,
          str |-> << [name |-> family.name, type |-> family.type,
                      help |-> family.help, lines |-> family.metric] >>]

(* ------------------------------ the hub ------------------------------- *)
VARIABLES
    metricFamiliesByName,  \* MetricHub.metricFamiliesByName, the live store
    stats,                 \* MetricHub.stats
    limit,                 \* MetricHub.limit
    mutex,                 \* MetricHub.Mutex: 0 when free, else the holder
    hubSize,               \* the hub_size gauge
    hubLimit,              \* the hub_limit gauge
    reqs,                  \* the handlers: position and locals of each request
    admitted,              \* history: samples merged since the last drain, by value
    env,                   \* the run: handlers in flight, what clients send
    expose,                \* exposeMetrics: its arguments, position and result
    fams,                  \* exposeMetrics: the channel of families
    results,               \* exposeMetrics: the channel of family strings
    respCh,                \* exposeMetrics: the channel of the whole text
    pool,                  \* the processFamilyWorker goroutines
    collector,             \* the processFamilyStringsWorker goroutine
    dist,                  \* the Distributor: key label, hubs, ring
    calls,                 \* the Distributor.ReceiveGRPC handlers
    sent,                  \* history: the batches each hub was sent
    unit                   \* one call of a function on its own: arguments, result

hubVars == <<metricFamiliesByName, stats, limit, mutex, hubSize, hubLimit, reqs,
             admitted, env>>
renderVars == <<expose, fams, results, respCh, pool, collector>>
distVars == <<dist, calls, sent>>
unitVars == <<unit>>
vars == <<hubVars, renderVars, distVars, unitVars>>

EmptyStore == <<>>

Perms(S) == {p \in [1..Cardinality(S) -> S] : \A x \in S : \E i \in DOMAIN p : p[i] = x}

QueueLens(f) == [k \in DOMAIN f.metrics |-> f.metrics[k].len]
FamilySize(f) == SumOver(QueueLens(f), DOMAIN f.metrics)
\* number of samples buffered in a store: the sum of all series queue lengths
StoreSize(m) == SumOver([n \in DOMAIN m |-> FamilySize(m[n])], DOMAIN m)
StoreSeries(m) == SumOver([n \in DOMAIN m |-> Cardinality(DOMAIN m[n].metrics)], DOMAIN m)

\* expfmt.TextParser.TextToMetricFamilies on a well-formed body: the sample
\* lines grouped by family name, in their order in the body; every sample of
\* the push carries the value v.  Where the body has HELP and TYPE lines for
\* a family they are fields of the first sample line of that family.
TextToMetricFamilies(body, v) ==
    [nm \in {body[i].fam : i \in DOMAIN body} |->
        LET InFam(x) == x.fam = nm
            mine == SelectSeq(body, InFam)
        IN [name |-> nm, nameSet |-> TRUE,
            help |-> IF "help" \in DOMAIN mine[1] THEN mine[1].help ELSE nm,
            type |-> IF "type" \in DOMAIN mine[1] THEN mine[1].type ELSE "gauge",
            metric |-> [i \in DOMAIN mine |->
                          [label |-> mine[i].lab, timestampMs |-> mine[i].ts,
                           value |-> v]]]]

\* a sample line of a push body: family, timestamp, label pairs
Line == [fam : FamNames, ts : Timestamps, lab : LabelSets]
\* the well-formed bodies the clients of the run send
Bodies == UNION {[1..k -> env.lines] : k \in env.sizes}

\* Receive, lines 600-603
CountDatapoints(parsedFamilies) ==
    SumOver([n \in DOMAIN parsedFamilies |-> Len(parsedFamilies[n].metric)],
            DOMAIN parsedFamilies)

\* a limit check that already refuses a push that fills the hub to the limit
OverfillAtLimit(lim, current, newDatapoints) ==
    lim > 0 /\ current + newDatapoints >= lim

\* Receive, lines 606-607: the push would overfill the hub
Overfill(lim, current, newDatapoints) ==
    lim > 0 /\ current + newDatapoints > lim

\* a hubMetrics that lets a push overwrite type and help of a family it finds
hubMetricsRetyping(m, families) ==
    [nm \in DOMAIN m \cup DOMAIN families |->
        IF nm \in DOMAIN families
        THEN IF nm \in DOMAIN m
             THEN [addMetrics(m[nm], families[nm].metric) EXCEPT
                      !.family = [families[nm] EXCEPT !.metric = <<>>]]
             ELSE newFamilyAndMetrics(families[nm])
        ELSE m[nm]]

\* hubMetrics, lines 628-634
hubMetrics(m, families) ==
    [nm \in DOMAIN m \cup DOMAIN families |->
        IF nm \in DOMAIN families
        THEN IF nm \in DOMAIN m
             THEN addMetrics(m[nm], families[nm].metric)
             ELSE newFamilyAndMetrics(families[nm])
        ELSE m[nm]]

\* whether hubMetrics panics on family nm of the batch, met with the store m
FamilyPanics(m, families, nm) ==
    IF nm \in DOMAIN m
    THEN NilDerefsAt(m[nm].metrics, families[nm].metric, m[nm].family.name, FALSE) # {}
    ELSE NilDerefsAt(<<>>, families[nm].metric, families[nm].name, TRUE) # {}

\* some sample of the batch or of the store has no timestamp
SomeNilTimestamp(m, families) ==
    \/ \E nm \in DOMAIN families : \E i \in DOMAIN families[nm].metric :
          NilTimestamp(families[nm].metric[i])
    \/ \E nm \in DOMAIN m : \E k \in DOMAIN m[nm].metrics :
          \E i \in 1..m[nm].metrics[k].len : NilTimestamp(m[nm].metrics[k].arr[i])

\* hubMetrics panics on some family of the batch
hubMetricsPanics(m, families) ==
    /\ SomeNilTimestamp(m, families)
    /\ \E nm \in DOMAIN families : FamilyPanics(m, families, nm)

\* hubMetrics visits the families in the given order and panics on family
\* number at: the families before are merged; of the family it panics on,
\* the samples before the panic are merged when the store had the family
\* (addMetrics), and nothing is stored when it had not (newFamilyAndMetrics
\* does not return).  merged is the number of samples handled.
hubMetricsUntilPanic(m, families, order, at) ==
    LET done == {order[i] : i \in 1..(at - 1)}
        nm == order[at]
        part == IF nm \in DOMAIN m
                THEN HandledBeforePanic(m[nm].metrics, families[nm].metric,
                                        m[nm].family.name, FALSE)
                ELSE 0
        before == [n \in done |-> families[n]]
        merged == hubMetrics(m, before)
    IN [store |-> IF nm \in DOMAIN m
                  THEN [merged EXCEPT ![nm] =
                           addMetrics(m[nm], SubSeq(families[nm].metric, 1, part))]
                  ELSE merged,
        merged |-> SumOver([n \in done |-> Len(families[n].metric)], done) + part]

\* exposeMetrics without timeout: the blocks of the families the codec
\* accepts, each with its series flattened in one of the possible orders.
\* The blocks are kept as a function of the family name (the order of the
\* blocks in the text is left open).
Expositions(m) ==
    LET Blocks(nm) == {familyToString(popDatapoints(m[nm], o).pulled) :
                          o \in Perms(DOMAIN m[nm].metrics)}
        ok == {nm \in DOMAIN m : \A b \in Blocks(nm) : ~b.err}
    IN {e \in [ok -> UNION {{b.str[1] : b \in Blocks(nm)} : nm \in ok}] :
           \A nm \in ok : e[nm].name = nm /\ e[nm] \in {b.str[1] : b \in Blocks(nm)}}

\* the live store after exposeMetrics ran over it
AfterExpose(m) ==
    [nm \in DOMAIN m |-> popDatapoints(m[nm], SetToSeq(DOMAIN m[nm].metrics)).f]

\* an updateCountStats that counts a family where it should count its series
CountStatsSeriesPerFamily(m) ==
    [numFamilies |-> Cardinality(DOMAIN m),
     numSeries |-> Cardinality(DOMAIN m),
     numDatapoints |-> StoreSize(m)]

\* updateCountStats, lines 755-763: the three counts of a store
CountStats(m) ==
    [numFamilies |-> Cardinality(DOMAIN m),
     numSeries |-> StoreSeries(m),
     numDatapoints |-> StoreSize(m)]

IdleReq == [kind |-> "none", pc |-> "idle", fams |-> <<>>, n |-> 0, tmp |-> 0,
            snap |-> <<>>, body |-> <<>>, code |-> 0, timedOut |-> FALSE,
            alone |-> TRUE, adm |-> <<>>, during |-> FALSE, panicked |-> FALSE]

Reqs == DOMAIN reqs
Active(r) == reqs[r].pc \notin {"idle", "done"}
\* requests arrive in the order of their numbers
CanStart(r) ==
    /\ reqs[r].pc = "idle"
    /\ \A q \in Reqs : q < r => reqs[q].pc # "idle"
    /\ Cardinality({q \in Reqs : Active(q)}) < env.conc

InitStats ==
    [lastScrapeTime |-> 0, lastScrapeSize |-> 0, lastScrapeNumFamilies |-> 0,
     lastReceiveTime |-> 0, lastReceiveSize |-> 0, lastReceiveNumFamilies |-> 0,
     currentCountFamilies |-> 0, currentCountSeries |-> 0,
     currentCountDatapoints |-> 0]

\* a NewMetricHub that shows every limit that means unlimited as 0
NewMetricHubZeroed(l) ==
    /\ metricFamiliesByName = EmptyStore
    /\ stats = InitStats
    /\ limit = l
    /\ mutex = 0
    /\ hubSize = 0
    /\ hubLimit = IF l > 0 THEN l ELSE 0

\* NewMetricHub(limit, scrapeTimeout)
NewMetricHub(l) ==
    /\ metricFamiliesByName = EmptyStore
    /\ stats = InitStats
    /\ limit = l
    /\ mutex = 0
    /\ hubSize = 0
    /\ hubLimit = l

\* no exposeMetrics call is followed step by step
ExposeIdle == [pc |-> "idle", arg |-> <<>>, workers |-> 0, todo |-> {},
               waitGroup |-> 0, ret |-> <<>>, timedOut |-> FALSE,
               panicked |-> FALSE, taken |-> <<>>]
OpenChan == [buf |-> <<>>, closed |-> FALSE]
RenderIdle ==
    /\ expose = ExposeIdle
    /\ fams = OpenChan
    /\ results = OpenChan
    /\ respCh = <<>>
    /\ pool = <<>>
    /\ collector = [pc |-> "idle", resp |-> <<>>]

\* no distributor runs
DistIdle ==
    /\ dist = [keyLabel |-> "", edgeHubArray |-> <<>>, ring |-> <<>>]
    /\ calls = <<>>
    /\ sent = <<>>

\* no function is called on its own
UnitIdle == unit = <<>>

\* a run: a hub with one of the limits, nreq requests of which conc may be in
\* flight together, clients sending bodies of the given sizes made of the
\* given lines
RunSized(limits, nreq, conc, tag, lines, sizes) ==
    /\ \E l \in limits : NewMetricHub(l)
    /\ env = [conc |-> conc, tag |-> tag, lines |-> lines, sizes |-> sizes]
    /\ reqs = [r \in 1..nreq |-> IdleReq]
    /\ admitted = [v \in 0..nreq |-> 0]
    /\ RenderIdle
    /\ DistIdle
    /\ UnitIdle

\* a run whose clients send bodies of one or two lines
Run(limits, nreq, conc, tag, lines) ==
    RunSized(limits, nreq, conc, tag, lines, PushSizes)

\* one series, timestamps in and out of order
OneSeries == {l \in Line : l.fam = "mf1" /\ l.lab = <<>>}
\* one series, one timestamp
OneLine == {l \in OneSeries : l.ts = 1}
\* two series of one family, in and out of order, and a series of another
ThreeSeries == {l \in Line : l.fam = "mf2" => (l.lab = <<>> /\ l.ts = 1)}

\* one series whose two label pairs come in either order
PermutedLines == [fam : {"mf1"}, ts : {1}, lab : PermutedLabelSets]

\* handlers run concurrently, two at a time; pushes are told apart
Init == Run(Limits, MaxReqs, 2, TRUE, OneSeries)

\* requests are handled one at a time, by a hub without limit or with limit 3
SeqInit == Run({-1, 3}, SeqMaxReqs, 1, FALSE, ThreeSeries)

\* two handlers run concurrently on a hub with any of the limits
PairInit == Run(Limits, PairReqs, 2, FALSE, OneLine)

\* requests are handled one at a time and pushes are told apart; the samples
\* are of one series and come with their label pairs in either order
TagInit == Run({-1, 3}, TagReqs, 1, TRUE, PermutedLines)

\* pushes of one line and scrapes, two at a time, on a hub with limit 3;
\* pushes are told apart
OverlapInit == RunSized({3}, OverlapReqs, 2, TRUE, OneSeries, {1})

\* requests are handled one at a time by a hub with limit 2 or 3; every
\* sample is of one series and one timestamp
AdmitInit == Run({2, 3}, AdmitReqs, 1, FALSE, OneLine)

\* sample lines of one series that come with TYPE gauge and HELP h1 or with
\* TYPE counter and HELP h2
MetaLines ==
    {l \in [fam : {"mf1"}, ts : Timestamps, lab : {<<>>},
            type : {"gauge", "counter"}, help : {"h1", "h2"}] :
        (l.type = "gauge") <=> (l.help = "h1")}

\* requests are handled one at a time; the pushes name one family with
\* either type and help
MetaInit == Run({-1, 3}, MetaReqs, 1, FALSE, MetaLines)

\* the label sets {a="1_b_2"} and {a="1", b="2"}: label values (and names)
\* may hold the underscore makeLabeledName separates its segments with
UnderscoreLabelSets ==
    { << [name |-> "a", value |-> "1_b_2"] >>,
      << [name |-> "a", value |-> "1"], [name |-> "b", value |-> "2"] >> }

\* sample lines of one family and one timestamp with these label sets
UnderscoreLines == [fam : {"mf1"}, ts : {1}, lab : UnderscoreLabelSets]

\* requests are handled one at a time; the samples carry these label sets
NameInit == Run({-1, 3}, NameReqs, 1, FALSE, UnderscoreLines)

\* sample lines of two families, with the timestamp 1 or without timestamp
NilLines == [fam : FamNames, ts : {ZeroMetric.timestampMs, 1}, lab : {<<>>}]

\* requests are handled one at a time; samples may come without timestamp
NilInit == Run({-1, 3}, NilReqs, 1, FALSE, NilLines)

\* the value the samples of request r carry: the number of the push where the
\* run tells pushes apart, else one value for all
ValueOf(r) == IF env.tag THEN r ELSE 0

\* request r arrives as rec; a push that arrives while a scrape is under way
\* is recorded in that scrape (alone)
Arrive(r, rec) ==
    reqs' = [q \in Reqs |->
               IF q = r THEN rec
               ELSE IF rec.kind = "receive" /\ reqs[q].kind = "scrape" /\ Active(q)
                    THEN [reqs[q] EXCEPT !.alone = FALSE]
                    ELSE reqs[q]]

Step(r, rec) == reqs' = [reqs EXCEPT ![r] = rec]

\* the handler returns: its locals are dead.  Where the run tells pushes
\* apart it also remembers which scrapes timed out and which pushes were
\* merged during the render of a scrape.
Return(r, status) ==
    [IdleReq EXCEPT !.kind = reqs[r].kind, !.pc = "done", !.code = status,
                    !.alone = reqs[r].alone,
                    !.timedOut = env.tag /\ reqs[r].timedOut,
                    !.during = env.tag /\ reqs[r].during]

(* ------------------------------ Receive ------------------------------- *)
\* a Receive that records the push in the last-receive stats before it
\* finds that the body does not parse
ReceiveBadBodyRecorded(r) ==
    /\ CanStart(r)
    /\ Arrive(r, [IdleReq EXCEPT !.kind = "receive", !.pc = "done",
                                 !.code = StatusBadRequest])
    /\ stats' = [stats EXCEPT !.lastReceiveTime = r]
    /\ UNCHANGED <<metricFamiliesByName, limit, mutex, hubSize, hubLimit,
                   admitted, env, renderVars, distVars, unitVars>>

\* lines 595-598: the body does not parse
ReceiveBadBody(r) ==
    /\ CanStart(r)
    /\ Arrive(r, [IdleReq EXCEPT !.kind = "receive", !.pc = "done",
                                 !.code = StatusBadRequest])
    /\ UNCHANGED <<metricFamiliesByName, stats, limit, mutex, hubSize, hubLimit,
                   admitted, env, renderVars, distVars, unitVars>>

\* lines 595-603: the body parses, the new datapoints are counted
ReceiveParse(r) ==
    /\ CanStart(r)
    /\ \E body \in Bodies :
         LET parsedFamilies == TextToMetricFamilies(body, ValueOf(r))
         IN Arrive(r, [IdleReq EXCEPT !.kind = "receive", !.pc = "check",
                                      !.fams = parsedFamilies,
                                      !.n = CountDatapoints(parsedFamilies)])
    /\ UNCHANGED <<metricFamiliesByName, stats, limit, mutex, hubSize, hubLimit,
                   admitted, env, renderVars, distVars, unitVars>>

\* lines 606-611: the push is refused
ReceiveOverfill(r) ==
    /\ reqs[r].kind = "receive" /\ reqs[r].pc = "check"
    /\ Overfill(limit, stats.currentCountDatapoints, reqs[r].n)
    /\ Step(r, Return(r, StatusNotAcceptable))
    /\ UNCHANGED <<metricFamiliesByName, stats, limit, mutex, hubSize, hubLimit,
                   admitted, env, renderVars, distVars, unitVars>>

\* lines 606-612: the push passes the limit check
ReceiveAdmit(r) ==
    /\ reqs[r].kind = "receive" /\ reqs[r].pc = "check"
    /\ ~Overfill(limit, stats.currentCountDatapoints, reqs[r].n)
    /\ Step(r, [reqs[r] EXCEPT !.pc = "lock"])
    /\ UNCHANGED <<metricFamiliesByName, stats, limit, mutex, hubSize, hubLimit,
                   admitted, env, renderVars, distVars, unitVars>>

\* hubMetrics, line 626: c.Lock()
hubMetricsLock(r) ==
    /\ reqs[r].kind = "receive" /\ reqs[r].pc = "lock"
    /\ mutex = 0
    /\ mutex' = r
    /\ Step(r, [reqs[r] EXCEPT !.pc = "merge"])
    /\ UNCHANGED <<metricFamiliesByName, stats, limit, hubSize, hubLimit,
                   admitted, env, renderVars, distVars, unitVars>>

\* hubMetrics, lines 627-635: the merge dereferences the nil timestamp of a
\* sample and panics; the deferred c.Unlock() runs, the server recovers the
\* panic of the handler and the request ends without an answer
hubMetricsPanic(r) ==
    /\ reqs[r].kind = "receive" /\ reqs[r].pc = "merge"
    /\ mutex = r
    /\ hubMetricsPanics(metricFamiliesByName, reqs[r].fams)
    /\ \E order \in Perms(DOMAIN reqs[r].fams) :
         \E at \in DOMAIN order :
            /\ FamilyPanics(metricFamiliesByName, reqs[r].fams, order[at])
            /\ \A i \in 1..(at - 1) :
                  ~FamilyPanics(metricFamiliesByName, reqs[r].fams, order[i])
            /\ LET out == hubMetricsUntilPanic(metricFamiliesByName, reqs[r].fams,
                                               order, at)
               IN /\ metricFamiliesByName' = out.store
                  /\ admitted' = [admitted EXCEPT ![ValueOf(r)] = @ + out.merged]
    /\ mutex' = 0
    /\ Step(r, [Return(r, 0) EXCEPT !.panicked = TRUE])
    /\ UNCHANGED <<stats, limit, hubSize, hubLimit, env, renderVars, distVars, unitVars>>

\* hubMetrics, lines 627-635: the merge, then the deferred c.Unlock()
hubMetricsMerge(r) ==
    /\ reqs[r].kind = "receive" /\ reqs[r].pc = "merge"
    /\ mutex = r
    /\ ~hubMetricsPanics(metricFamiliesByName, reqs[r].fams)
    /\ metricFamiliesByName' = hubMetrics(metricFamiliesByName, reqs[r].fams)
    /\ mutex' = 0
    /\ admitted' = [admitted EXCEPT ![ValueOf(r)] = @ + reqs[r].n]
    /\ Step(r, [reqs[r] EXCEPT !.pc = "stats",
                               !.during = \E q \in Reqs : /\ reqs[q].kind = "scrape"
                                                          /\ reqs[q].pc = "render"])
    /\ UNCHANGED <<stats, limit, hubSize, hubLimit, env, renderVars, distVars, unitVars>>

\* lines 616-619: the last-receive stats, and the read of the counter that
\* "+=" starts with.  time.Now() is the number of the request, the content
\* length the number of sample lines.
ReceiveStats(r) ==
    /\ reqs[r].kind = "receive" /\ reqs[r].pc = "stats"
    /\ stats' = [stats EXCEPT !.lastReceiveTime = r,
                              !.lastReceiveSize = reqs[r].n,
                              !.lastReceiveNumFamilies = Cardinality(DOMAIN reqs[r].fams)]
    /\ Step(r, [reqs[r] EXCEPT !.pc = "count", !.tmp = stats.currentCountDatapoints])
    /\ UNCHANGED <<metricFamiliesByName, limit, mutex, hubSize, hubLimit,
                   admitted, env, renderVars, distVars, unitVars>>

\* line 619: the write of "+="
ReceiveCount(r) ==
    /\ reqs[r].kind = "receive" /\ reqs[r].pc = "count"
    /\ stats' = [stats EXCEPT !.currentCountDatapoints = reqs[r].tmp + reqs[r].n]
    /\ Step(r, [reqs[r] EXCEPT !.pc = "ret"])
    /\ UNCHANGED <<metricFamiliesByName, limit, mutex, hubSize, hubLimit,
                   admitted, env, renderVars, distVars, unitVars>>

\* lines 620-622: the gauge, then the answer
ReceiveReturn(r) ==
    /\ reqs[r].kind = "receive" /\ reqs[r].pc = "ret"
    /\ hubSize' = stats.currentCountDatapoints
    /\ Step(r, Return(r, StatusOK))
    /\ UNCHANGED <<metricFamiliesByName, stats, limit, mutex, hubLimit,
                   admitted, env, renderVars, distVars, unitVars>>

(* ------------------------------- Scrape ------------------------------- *)
\* the size of an exposition: two comment lines and the sample lines of each
\* block
ExpositionSize(e) == SumOver([nm \in DOMAIN e |-> 2 + Len(e[nm].lines)], DOMAIN e)
\* the number of sample lines of an exposition
SampleLines(e) == SumOver([nm \in DOMAIN e |-> Len(e[nm].lines)], DOMAIN e)

\* line 640: c.Lock()
ScrapeLock(r) ==
    /\ CanStart(r)
    /\ mutex = 0
    /\ mutex' = r
    /\ Arrive(r, [IdleReq EXCEPT !.kind = "scrape", !.pc = "swap",
                     !.alone = \A q \in Reqs : ~(reqs[q].kind = "receive" /\ Active(q))])
    /\ UNCHANGED <<metricFamiliesByName, stats, limit, hubSize, hubLimit,
                   admitted, env, renderVars, distVars, unitVars>>

\* lines 641-643: take the store, clearMetrics, c.Unlock()
ScrapeSwap(r) ==
    /\ reqs[r].kind = "scrape" /\ reqs[r].pc = "swap"
    /\ mutex = r
    /\ metricFamiliesByName' = EmptyStore
    /\ mutex' = 0
    /\ admitted' = [v \in DOMAIN admitted |-> 0]
    /\ Step(r, [reqs[r] EXCEPT !.pc = "render", !.snap = metricFamiliesByName,
                               !.adm = admitted])
    /\ UNCHANGED <<stats, limit, hubSize, hubLimit, env, renderVars, distVars, unitVars>>

\* line 645, exposeMetrics answers before the timeout
ScrapeRender(r) ==
    /\ reqs[r].kind = "scrape" /\ reqs[r].pc = "render"
    /\ \E e \in Expositions(reqs[r].snap) :
         Step(r, [reqs[r] EXCEPT !.pc = "stats", !.body = e])
    /\ UNCHANGED <<metricFamiliesByName, stats, limit, mutex, hubSize, hubLimit,
                   admitted, env, renderVars, distVars, unitVars>>

\* a Scrape that puts the snapshot back into the live store when the render
\* times out
ScrapeTimeoutRestoring(r) ==
    /\ reqs[r].kind = "scrape" /\ reqs[r].pc = "render"
    /\ Step(r, [reqs[r] EXCEPT !.pc = "stats", !.body = <<>>, !.timedOut = TRUE])
    /\ metricFamiliesByName' = reqs[r].snap
    /\ UNCHANGED <<stats, limit, mutex, hubSize, hubLimit, admitted, env, renderVars, distVars, unitVars>>

\* line 645, exposeMetrics lines 685-687: the timeout fires, the text is empty
ScrapeTimeout(r) ==
    /\ reqs[r].kind = "scrape" /\ reqs[r].pc = "render"
    /\ Step(r, [reqs[r] EXCEPT !.pc = "stats", !.body = <<>>, !.timedOut = TRUE])
    /\ UNCHANGED <<metricFamiliesByName, stats, limit, mutex, hubSize, hubLimit,
                   admitted, env, renderVars, distVars, unitVars>>

\* a Scrape that leaves the buffered-sample counter as it is
ScrapeStatsKeepingCount(r) ==
    /\ reqs[r].kind = "scrape" /\ reqs[r].pc = "stats"
    /\ stats' = [stats EXCEPT !.lastScrapeTime = r,
                              !.lastScrapeSize = ExpositionSize(reqs[r].body),
                              !.lastScrapeNumFamilies = Cardinality(DOMAIN reqs[r].snap)]
    /\ Step(r, [reqs[r] EXCEPT !.pc = "ret", !.snap = <<>>])
    /\ UNCHANGED <<metricFamiliesByName, limit, mutex, hubSize, hubLimit,
                   admitted, env, renderVars, distVars, unitVars>>

\* lines 647-650
ScrapeStats(r) ==
    /\ reqs[r].kind = "scrape" /\ reqs[r].pc = "stats"
    /\ stats' = [stats EXCEPT !.lastScrapeTime = r,
                              !.lastScrapeSize = ExpositionSize(reqs[r].body),
                              !.lastScrapeNumFamilies = Cardinality(DOMAIN reqs[r].snap),
                              !.currentCountDatapoints = 0]
    /\ Step(r, [reqs[r] EXCEPT !.pc = "ret", !.snap = <<>>])
    /\ UNCHANGED <<metricFamiliesByName, limit, mutex, hubSize, hubLimit,
                   admitted, env, renderVars, distVars, unitVars>>

\* lines 651-653: the gauge, then the answer
ScrapeReturn(r) ==
    /\ reqs[r].kind = "scrape" /\ reqs[r].pc = "ret"
    /\ hubSize' = 0
    /\ Step(r, Return(r, StatusOK))
    /\ UNCHANGED <<metricFamiliesByName, stats, limit, mutex, hubLimit,
                   admitted, env, renderVars, distVars, unitVars>>

(* -------------------------------- Debug ------------------------------- *)
\* updateCountStats, lines 755-763: the counting pass over the live store
DebugCount(r) ==
    /\ CanStart(r)
    /\ Arrive(r, [IdleReq EXCEPT !.kind = "debug", !.pc = "write",
                                 !.snap = CountStats(metricFamiliesByName)])
    /\ UNCHANGED <<metricFamiliesByName, stats, limit, mutex, hubSize, hubLimit,
                   admitted, env, renderVars, distVars, unitVars>>

\* updateCountStats, lines 764-766
DebugWrite(r) ==
    /\ reqs[r].kind = "debug" /\ reqs[r].pc = "write"
    /\ stats' = [stats EXCEPT !.currentCountFamilies = reqs[r].snap.numFamilies,
                              !.currentCountSeries = reqs[r].snap.numSeries,
                              !.currentCountDatapoints = reqs[r].snap.numDatapoints]
    /\ Step(r, [reqs[r] EXCEPT !.pc = "report", !.snap = <<>>])
    /\ UNCHANGED <<metricFamiliesByName, limit, mutex, hubSize, hubLimit,
                   admitted, env, renderVars, distVars, unitVars>>

\* lines 719-745: the report; the utilization is kept in hundredths of a
\* percent
DebugString(verbose, text) ==
    [verbose |-> verbose,
     limitValue |-> IF limit <= 0 THEN "None" ELSE limit,
     utilizationValue |-> IF limit <= 0 THEN 0
                          ELSE (stats.currentCountDatapoints * 10000) \div limit,
     stats |-> stats,
     text |-> text]

\* lines 747-751 without verbose
DebugReport(r) ==
    /\ reqs[r].kind = "debug" /\ reqs[r].pc = "report"
    /\ Step(r, [reqs[r] EXCEPT !.pc = "ret", !.body = DebugString(FALSE, <<>>)])
    /\ UNCHANGED <<metricFamiliesByName, stats, limit, mutex, hubSize, hubLimit,
                   admitted, env, renderVars, distVars, unitVars>>

\* lines 747-751 with verbose: exposeMetrics over the live store
DebugVerbose(r) ==
    /\ reqs[r].kind = "debug" /\ reqs[r].pc = "report"
    /\ \E e \in Expositions(metricFamiliesByName) :
         Step(r, [reqs[r] EXCEPT !.pc = "ret", !.body = DebugString(TRUE, e)])
    /\ metricFamiliesByName' = AfterExpose(metricFamiliesByName)
    /\ UNCHANGED <<stats, limit, mutex, hubSize, hubLimit, admitted, env, renderVars, distVars, unitVars>>

\* lines 747-751 with verbose, the render timeout fires
DebugVerboseTimeout(r) ==
    /\ reqs[r].kind = "debug" /\ reqs[r].pc = "report"
    /\ Step(r, [reqs[r] EXCEPT !.pc = "ret", !.body = DebugString(TRUE, <<>>),
                               !.timedOut = TRUE])
    /\ metricFamiliesByName' = AfterExpose(metricFamiliesByName)
    /\ UNCHANGED <<stats, limit, mutex, hubSize, hubLimit, admitted, env, renderVars, distVars, unitVars>>

\* line 751: the answer
DebugReturn(r) ==
    /\ reqs[r].kind = "debug" /\ reqs[r].pc = "ret"
    /\ Step(r, Return(r, StatusOK))
    /\ UNCHANGED <<metricFamiliesByName, stats, limit, mutex, hubSize, hubLimit,
                   admitted, env, renderVars, distVars, unitVars>>

(* ---------------------------- exposeMetrics --------------------------- *)
\* The call exposeMetrics(expose.arg, expose.workers), one step per channel
\* operation of each goroutine.  A buffered channel is its buffer and whether
\* it was closed.
Workers == DOMAIN pool
Running == expose.pc \notin {"idle", "call"} /\ ~expose.panicked

\* lines 661-672: the channels, the workers, the strings worker
ExposeStart ==
    /\ expose.pc = "call"
    /\ expose' = [expose EXCEPT !.pc = "feed", !.todo = DOMAIN expose.arg,
                                !.waitGroup = expose.workers,
                                !.taken = [nm \in DOMAIN expose.arg |-> 0]]
    /\ fams' = OpenChan
    /\ results' = OpenChan
    /\ respCh' = <<>>
    /\ pool' = [w \in 1..expose.workers |-> [pc |-> "recv", fam |-> <<>>, str |-> <<>>]]
    /\ collector' = [pc |-> "recv", resp |-> <<>>]
    /\ UNCHANGED <<hubVars, distVars, unitVars>>

\* lines 674-676: fams <- fam, for the next family of the range over the map
ExposeFeed ==
    /\ Running /\ expose.pc = "feed"
    /\ Len(fams.buf) < expose.workers
    /\ \E nm \in expose.todo :
         /\ fams' = [fams EXCEPT !.buf = Append(@, nm)]
         /\ expose' = [expose EXCEPT !.todo = @ \ {nm}]
    /\ UNCHANGED <<hubVars, distVars, unitVars, results, respCh, pool, collector>>

\* line 678: close(fams)
ExposeClose ==
    /\ Running /\ expose.pc = "feed"
    /\ expose.todo = {}
    /\ fams' = [fams EXCEPT !.closed = TRUE]
    /\ expose' = [expose EXCEPT !.pc = "wait"]
    /\ UNCHANGED <<hubVars, distVars, unitVars, results, respCh, pool, collector>>

\* lines 679-680: waitGroup.Wait(), close(results)
ExposeWait ==
    /\ Running /\ expose.pc = "wait"
    /\ expose.waitGroup = 0
    /\ results' = [results EXCEPT !.closed = TRUE]
    /\ expose' = [expose EXCEPT !.pc = "select"]
    /\ UNCHANGED <<hubVars, distVars, unitVars, fams, respCh, pool, collector>>

\* lines 682-684: the text arrives
ExposeResp ==
    /\ Running /\ expose.pc = "select"
    /\ respCh # <<>>
    /\ expose' = [expose EXCEPT !.pc = "done", !.ret = Head(respCh)]
    /\ respCh' = Tail(respCh)
    /\ UNCHANGED <<hubVars, distVars, unitVars, fams, results, pool, collector>>

\* lines 685-687: the timer, started when the select is reached, fires
ExposeTimeout ==
    /\ Running /\ expose.pc = "select"
    /\ expose' = [expose EXCEPT !.pc = "done", !.ret = <<>>, !.timedOut = TRUE]
    /\ UNCHANGED <<hubVars, distVars, unitVars, fams, results, respCh, pool, collector>>

\* a processFamilyWorker that reads the next family and leaves it in the
\* channel
WorkerRecvKeeping(w) ==
    /\ Running /\ pool[w].pc = "recv"
    /\ fams.buf # <<>>
    /\ pool' = [pool EXCEPT ![w] = [pc |-> "pop", fam |-> <<Head(fams.buf)>>,
                                    str |-> <<>>]]
    /\ expose' = [expose EXCEPT !.taken[Head(fams.buf)] = @ + 1]
    /\ UNCHANGED <<hubVars, distVars, unitVars, fams, results, respCh, collector>>

\* processFamilyWorker, line 693: the next family of the channel (expose.taken
\* is the history of how often each family was received)
WorkerRecv(w) ==
    /\ Running /\ pool[w].pc = "recv"
    /\ fams.buf # <<>>
    /\ pool' = [pool EXCEPT ![w] = [pc |-> "pop", fam |-> <<Head(fams.buf)>>,
                                    str |-> <<>>]]
    /\ fams' = [fams EXCEPT !.buf = Tail(@)]
    /\ expose' = [expose EXCEPT !.taken[Head(fams.buf)] = @ + 1]
    /\ UNCHANGED <<hubVars, distVars, unitVars, results, respCh, collector>>

\* processFamilyWorker, lines 692-693: the channel is closed and empty, the
\* worker leaves and the deferred waitGroup.Done() runs
WorkerDone(w) ==
    /\ Running /\ pool[w].pc = "recv"
    /\ fams.buf = <<>> /\ fams.closed
    /\ pool' = [pool EXCEPT ![w].pc = "done"]
    /\ expose' = [expose EXCEPT !.waitGroup = @ - 1]
    /\ UNCHANGED <<hubVars, distVars, unitVars, fams, results, respCh, collector>>

\* processFamilyWorker, lines 694-695 and 698: the family is pulled and the
\* codec accepts it
WorkerRender(w) ==
    /\ Running /\ pool[w].pc = "pop"
    /\ \E order \in Perms(DOMAIN expose.arg[pool[w].fam[1]].metrics) :
         LET pullFamily == popDatapoints(expose.arg[pool[w].fam[1]], order)
             out == familyToString(pullFamily.pulled)
         IN /\ ~out.err
            /\ pool' = [pool EXCEPT ![w] = [pc |-> "send", fam |-> <<>>,
                                            str |-> out.str]]
            /\ expose' = [expose EXCEPT !.arg[pool[w].fam[1]] = pullFamily.f]
    /\ UNCHANGED <<hubVars, distVars, unitVars, fams, results, respCh, collector>>

\* processFamilyWorker, lines 696-697: the codec refuses the family, the
\* worker logs its name (*pullFamily.Name) and goes on
WorkerDrop(w) ==
    /\ Running /\ pool[w].pc = "pop"
    /\ LET pullFamily == popDatapoints(expose.arg[pool[w].fam[1]],
                                       SetToSeq(DOMAIN expose.arg[pool[w].fam[1]].metrics))
       IN /\ familyToString(pullFamily.pulled).err
          /\ pullFamily.pulled.nameSet
          /\ expose' = [expose EXCEPT !.arg[pool[w].fam[1]] = pullFamily.f]
    /\ pool' = [pool EXCEPT ![w] = [pc |-> "recv", fam |-> <<>>, str |-> <<>>]]
    /\ UNCHANGED <<hubVars, distVars, unitVars, fams, results, respCh, collector>>

\* processFamilyWorker, line 697: the codec refuses a family whose Name is
\* nil; the log line dereferences it and the goroutine panics, which ends the
\* process
WorkerPanic(w) ==
    /\ Running /\ pool[w].pc = "pop"
    /\ LET pullFamily == popDatapoints(expose.arg[pool[w].fam[1]],
                                       SetToSeq(DOMAIN expose.arg[pool[w].fam[1]].metrics))
       IN /\ familyToString(pullFamily.pulled).err
          /\ ~pullFamily.pulled.nameSet
    /\ pool' = [pool EXCEPT ![w].pc = "panic"]
    /\ expose' = [expose EXCEPT !.panicked = TRUE]
    /\ UNCHANGED <<hubVars, distVars, unitVars, fams, results, respCh, collector>>

\* processFamilyWorker, line 699: results <- familyStr
WorkerSend(w) ==
    /\ Running /\ pool[w].pc = "send"
    /\ Len(results.buf) < expose.workers
    /\ results' = [results EXCEPT !.buf = @ \o pool[w].str]
    /\ pool' = [pool EXCEPT ![w] = [pc |-> "recv", fam |-> <<>>, str |-> <<>>]]
    /\ UNCHANGED <<hubVars, distVars, unitVars, expose, fams, respCh, collector>>

\* processFamilyStringsWorker, lines 706-707
CollectorWrite ==
    /\ Running /\ collector.pc = "recv"
    /\ results.buf # <<>>
    /\ collector' = [collector EXCEPT !.resp = Append(@, Head(results.buf))]
    /\ results' = [results EXCEPT !.buf = Tail(@)]
    /\ UNCHANGED <<hubVars, distVars, unitVars, expose, fams, respCh, pool>>

\* processFamilyStringsWorker, lines 706 and 709: results is closed and
\* empty, the text goes to respCh
CollectorRespond ==
    /\ Running /\ collector.pc = "recv"
    /\ results.buf = <<>> /\ results.closed
    /\ respCh' = Append(respCh, collector.resp)
    /\ collector' = [collector EXCEPT !.pc = "done"]
    /\ UNCHANGED <<hubVars, distVars, unitVars, expose, fams, results, pool>>

\* a family as a client of the RPC endpoint may send it: named, with Name set
\* to the empty string, or with Name left out
RenderFamilies ==
    LET m(t) == [label |-> <<>>, timestampMs |-> t, value |-> 0]
        lists == {<<>>, <<m(1)>>, <<m(2), m(1)>>}
    IN [name : {"mf1", "mf2"}, nameSet : {TRUE}, help : {"h"}, type : {"gauge"},
        metric : lists]
       \cup [name : {""}, nameSet : BOOLEAN, help : {"h"}, type : {"gauge"},
             metric : {<<m(1)>>}]

\* the stores hubMetrics builds from one batch of such families
RenderSnapshots ==
    {hubMetrics(EmptyStore, batch) :
        batch \in UNION {{b \in [S -> RenderFamilies] : \A nm \in S : b[nm].name = nm} :
                            S \in SUBSET {"", "mf1", "mf2"}}}

\* exposeMetrics is called with one of the stores and a pool of 1..MaxWorkers
RenderInit ==
    /\ metricFamiliesByName = EmptyStore
    /\ stats = InitStats
    /\ limit = 0 /\ hubLimit = 0 /\ hubSize = 0 /\ mutex = 0
    /\ reqs = <<>> /\ admitted = <<>>
    /\ env = [conc |-> 0, tag |-> FALSE, lines |-> {}, sizes |-> {}]
    /\ \E snapshot \in RenderSnapshots, workers \in 1..MaxWorkers :
         expose = [ExposeIdle EXCEPT !.pc = "call", !.arg = snapshot,
                                     !.workers = workers]
    /\ fams = OpenChan
    /\ results = OpenChan
    /\ respCh = <<>>
    /\ pool = <<>>
    /\ collector = [pc |-> "idle", resp |-> <<>>]
    /\ DistIdle
    /\ UnitIdle

RenderNext ==
    \/ ExposeStart
    \/ ExposeFeed
    \/ ExposeClose
    \/ ExposeWait
    \/ ExposeResp
    \/ ExposeTimeout
    \/ \E w \in Workers : WorkerRecv(w)
    \/ \E w \in Workers : WorkerDone(w)
    \/ \E w \in Workers : WorkerRender(w)
    \/ \E w \in Workers : WorkerDrop(w)
    \/ \E w \in Workers : WorkerPanic(w)
    \/ \E w \in Workers : WorkerSend(w)
    \/ CollectorWrite
    \/ CollectorRespond

(* ----------------------------- Distributor --------------------------- *)
\* a getKeyLabelValue that takes the value of the first label pair, whatever
\* its name
getKeyLabelValueOfFirst(metric, keyLabel) ==
    IF metric.label = <<>> THEN "" ELSE metric.label[1].value

\* getKeyLabelValue, lines 80-87: the value of the first label pair named
\* keyLabel, "" when there is none
getKeyLabelValue(metric, keyLabel) ==
    LET hits == {i \in DOMAIN metric.label : metric.label[i].name = keyLabel}
    IN IF hits = {} THEN ""
       ELSE metric.label[CHOOSE i \in hits : \A k \in hits : i <= k].value

\* hashring.GetNode: the node that owns the key, none when the ring is empty
GetNode(ring, stringKey) ==
    IF DOMAIN ring = {} THEN [node |-> "", ok |-> FALSE]
    ELSE [node |-> ring[stringKey], ok |-> TRUE]

\* a routing step that starts a new family entry for every sample
distSetPutReplacing(distSet, hub, fam, met) ==
    [distSet EXCEPT ![hub] =
        (fam.name :> [name |-> fam.name, nameSet |-> fam.nameSet, help |-> fam.help,
                      type |-> fam.type, metric |-> SliceLit(met)]) @@ @]

\* lines 57-67: append to the family entry of the hub, or create it with the
\* metadata of the source family.  distSet[hub] must be a map.
distSetPut(distSet, hub, fam, met) ==
    IF fam.name \in DOMAIN distSet[hub]
    THEN [distSet EXCEPT ![hub][fam.name].metric = append(@, met)]
    ELSE [distSet EXCEPT ![hub] =
            (fam.name :> [name |-> fam.name, nameSet |-> fam.nameSet,
                          help |-> fam.help, type |-> fam.type,
                          metric |-> SliceLit(met)]) @@ @]

Calls == DOMAIN calls
\* the distributor process is up: no handler panicked, no log.Fatalf
DistUp == \A c \in Calls : calls[c].pc \notin {"panic", "fatal"}

IdleCall == [pc |-> "idle", families |-> <<>>, batch |-> <<>>, i |-> 0, j |-> 0,
             distSet |-> <<>>, todo |-> {}]

\* the position of the sample the two loops of lines 49-51 visit after (i, j)
NextPos(families, i, j) ==
    IF i >= 1 /\ i <= Len(families) /\ j < Len(families[i].metric)
    THEN [i |-> i, j |-> j + 1]
    ELSE LET later == {k \in (i + 1)..Len(families) : families[k].metric # <<>>}
         IN IF later = {} THEN [i |-> Len(families) + 1, j |-> 1]
            ELSE [i |-> CHOOSE k \in later : \A l \in later : k <= l, j |-> 1]

\* the label values the ring is asked for
DistKeys == {"", "A", "B"}
\* the label pairs of the samples pushed to the distributor
DistLabelSets ==
    [none |-> <<>>,
     A |-> << [name |-> "host", value |-> "A"] >>,
     B |-> << [name |-> "host", value |-> "B"] >>,
     X |-> << [name |-> "a", value |-> "B"], [name |-> "host", value |-> "A"] >>]
\* family number i of a batch: its name decides type and help; its samples
\* carry the label pairs named in labs and their place in the batch as value
DistFamily(i, nm, labs) ==
    [name |-> nm, nameSet |-> TRUE, help |-> nm \o " help",
     type |-> IF nm = "cpu" THEN "counter" ELSE "gauge",
     metric |-> [j \in DOMAIN labs |->
                   [label |-> DistLabelSets[labs[j]], timestampMs |-> 1,
                    value |-> 10 * i + j]]]
\* the batches clients push: one family, or two of the same or another name
DistBatches ==
    LET first == {<<"X", "B">>, <<"none">>}
    IN {<<DistFamily(1, "cpu", l)>> : l \in first}
       \cup {<<DistFamily(1, "cpu", l), DistFamily(2, nm, <<"A">>)>> :
                l \in first, nm \in {"cpu", "mem"}}

\* lines 42-48: the fan-out map with an empty map for every hub (the handlers
\* are numbered in the order in which they start)
DistReceive(c) ==
    /\ DistUp /\ calls[c].pc = "idle"
    /\ \A b \in Calls : b < c => calls[b].pc # "idle"
    /\ \E families \in DistBatches :
         calls' = [calls EXCEPT ![c] =
                     [pc |-> "route", families |-> families, batch |-> families,
                      i |-> NextPos(families, 0, 0).i, j |-> 1,
                      distSet |-> [h \in {dist.edgeHubArray[k] :
                                             k \in DOMAIN dist.edgeHubArray} |-> <<>>],
                      todo |-> {}]]
    /\ UNCHANGED <<hubVars, renderVars, unitVars, dist, sent>>

\* lines 52-67 for the sample at (i, j), the ring names a hub of the map
DistRoute(c) ==
    /\ DistUp /\ calls[c].pc = "route"
    /\ calls[c].i <= Len(calls[c].families)
    /\ LET fam == calls[c].families[calls[c].i]
           met == fam.metric[calls[c].j]
           labelVal == getKeyLabelValue(met, dist.keyLabel)
           hub == GetNode(dist.ring, labelVal).node
           pos == NextPos(calls[c].families, calls[c].i, calls[c].j)
       IN /\ hub \in DOMAIN calls[c].distSet
          /\ calls' = [calls EXCEPT ![c].distSet = distSetPut(@, hub, fam, met),
                                    ![c].i = pos.i, ![c].j = pos.j]
    /\ UNCHANGED <<hubVars, renderVars, unitVars, dist, sent>>

\* lines 52-61 for the sample at (i, j) when the ring has no node: the miss is
\* logged, hub is "", distSet[""] is a nil map, and the assignment of line 61
\* to an entry of a nil map panics
DistRoutePanic(c) ==
    /\ DistUp /\ calls[c].pc = "route"
    /\ calls[c].i <= Len(calls[c].families)
    /\ LET fam == calls[c].families[calls[c].i]
           met == fam.metric[calls[c].j]
           labelVal == getKeyLabelValue(met, dist.keyLabel)
           hub == GetNode(dist.ring, labelVal).node
       IN hub \notin DOMAIN calls[c].distSet
    /\ calls' = [calls EXCEPT ![c].pc = "panic"]
    /\ UNCHANGED <<hubVars, renderVars, unitVars, dist, sent>>

\* lines 69-74: all samples are routed, sendToHubs is called
DistRouted(c) ==
    /\ DistUp /\ calls[c].pc = "route"
    /\ calls[c].i > Len(calls[c].families)
    /\ calls' = [calls EXCEPT ![c].pc = IF DOMAIN calls[c].distSet = {}
                                         THEN "done" ELSE "send",
                              ![c].todo = DOMAIN calls[c].distSet]
    /\ UNCHANGED <<hubVars, renderVars, unitVars, dist, sent>>

\* sendToHubs, lines 90-93: Collect on the next hub of the range over distSet
\* succeeds; after the last hub ReceiveGRPC returns
DistCollect(c) ==
    /\ DistUp /\ calls[c].pc = "send"
    /\ \E hub \in calls[c].todo :
         /\ sent' = [sent EXCEPT ![hub] = Append(@, calls[c].distSet[hub])]
         /\ calls' = [calls EXCEPT ![c].todo = @ \ {hub},
                                   ![c].pc = IF calls[c].todo = {hub}
                                             THEN "done" ELSE "send"]
    /\ UNCHANGED <<hubVars, renderVars, unitVars, dist>>

\* sendToHubs, lines 93-96, then lines 75-77: Collect fails, log.Fatalf ends
\* the process
DistCollectFails(c) ==
    /\ DistUp /\ calls[c].pc = "send"
    /\ calls' = [calls EXCEPT ![c].pc = "fatal"]
    /\ UNCHANGED <<hubVars, renderVars, unitVars, dist, sent>>

\* the hub lists a distributor may be configured with
HubLists == {SubSeq(<<"h1", "h2", "h3">>, 1, n) : n \in 0..MaxHubs}

\* NewDistributor(keyLabel, edgeHubArray), lines 22-39: the ring over the hubs
\* is some fixed assignment of keys to hubs
NewDistributor(keyLabel, edgeHubArray, ring) ==
    dist = [keyLabel |-> keyLabel, edgeHubArray |-> edgeHubArray, ring |-> ring]

\* the rings over a set of hubs: every assignment of the keys to the hubs, up
\* to the names of the hubs (the hub that owns the key "" is called h1)
Rings(hubs) ==
    IF hubs = {} THEN {<<>>} ELSE {ring \in [DistKeys -> hubs] : ring[""] = "h1"}

\* a distributor with one of the key labels, hub lists and rings, and two
\* handlers of ReceiveGRPC
DistInit ==
    /\ metricFamiliesByName = EmptyStore
    /\ stats = InitStats
    /\ limit = 0 /\ hubLimit = 0 /\ hubSize = 0 /\ mutex = 0
    /\ reqs = <<>> /\ admitted = <<>>
    /\ env = [conc |-> 0, tag |-> FALSE, lines |-> {}, sizes |-> {}]
    /\ RenderIdle
    /\ \E keyLabel \in {"host", ""}, edgeHubArray \in HubLists :
         LET hubs == {edgeHubArray[k] : k \in DOMAIN edgeHubArray}
         IN /\ \E ring \in Rings(hubs) :
                 NewDistributor(keyLabel, edgeHubArray, ring)
            /\ sent = [h \in hubs |-> <<>>]
    /\ calls = [c \in {1, 2} |-> IdleCall]
    /\ UnitIdle

DistNext ==
    \/ \E c \in Calls : DistReceive(c)
    \/ \E c \in Calls : DistRoute(c)
    \/ \E c \in Calls : DistRoutePanic(c)
    \/ \E c \in Calls : DistRouted(c)
    \/ \E c \in Calls : DistCollect(c)
    \/ \E c \in Calls : DistCollectFails(c)

Next ==
    \/ \E r \in Reqs : ReceiveBadBody(r)
    \/ \E r \in Reqs : ReceiveParse(r)
    \/ \E r \in Reqs : ReceiveOverfill(r)
    \/ \E r \in Reqs : ReceiveAdmit(r)
    \/ \E r \in Reqs : hubMetricsLock(r)
    \/ \E r \in Reqs : hubMetricsMerge(r)
    \/ \E r \in Reqs : ReceiveStats(r)
    \/ \E r \in Reqs : ReceiveCount(r)
    \/ \E r \in Reqs : ReceiveReturn(r)
    \/ \E r \in Reqs : ScrapeLock(r)
    \/ \E r \in Reqs : ScrapeSwap(r)
    \/ \E r \in Reqs : ScrapeRender(r)
    \/ \E r \in Reqs : ScrapeTimeout(r)
    \/ \E r \in Reqs : ScrapeStats(r)
    \/ \E r \in Reqs : ScrapeReturn(r)
    \/ \E r \in Reqs : DebugCount(r)
    \/ \E r \in Reqs : DebugWrite(r)
    \/ \E r \in Reqs : DebugReport(r)
    \/ \E r \in Reqs : DebugVerbose(r)
    \/ \E r \in Reqs : DebugVerboseTimeout(r)
    \/ \E r \in Reqs : DebugReturn(r)

\* the pushes and the scrapes
OverlapNext ==
    \/ \E r \in Reqs : ReceiveParse(r)
    \/ \E r \in Reqs : ReceiveOverfill(r)
    \/ \E r \in Reqs : ReceiveAdmit(r)
    \/ \E r \in Reqs : hubMetricsLock(r)
    \/ \E r \in Reqs : hubMetricsMerge(r)
    \/ \E r \in Reqs : ReceiveStats(r)
    \/ \E r \in Reqs : ReceiveCount(r)
    \/ \E r \in Reqs : ReceiveReturn(r)
    \/ \E r \in Reqs : ScrapeLock(r)
    \/ \E r \in Reqs : ScrapeSwap(r)
    \/ \E r \in Reqs : ScrapeRender(r)
    \/ \E r \in Reqs : ScrapeTimeout(r)
    \/ \E r \in Reqs : ScrapeStats(r)
    \/ \E r \in Reqs : ScrapeReturn(r)

Spec == Init /\ [][Next]_vars

OverlapSpec == OverlapInit /\ [][OverlapNext]_vars

AdmitSpec == AdmitInit /\ [][Next]_vars

MetaSpec == MetaInit /\ [][Next]_vars

NameSpec == NameInit /\ [][Next]_vars

\* the handlers, with the panic of a merge
NilNext ==
    \/ Next
    \/ \E r \in Reqs : hubMetricsPanic(r)

NilSpec == NilInit /\ [][NilNext]_vars

SeqSpec == SeqInit /\ [][Next]_vars

PairSpec == PairInit /\ [][Next]_vars

TagSpec == TagInit /\ [][Next]_vars

RenderSpec == RenderInit /\ [][RenderNext]_vars

\* the steps of the goroutine that runs exposeMetrics (the timer of line 685
\* among them), of worker w and of the strings worker
ExposeStep ==
    ExposeStart \/ ExposeFeed \/ ExposeClose \/ ExposeWait \/ ExposeResp \/ ExposeTimeout
WorkerStep(w) ==
    /\ w \in Workers
    /\ \/ WorkerRecv(w) \/ WorkerDone(w) \/ WorkerRender(w)
       \/ WorkerDrop(w) \/ WorkerPanic(w) \/ WorkerSend(w)
CollectorStep == CollectorWrite \/ CollectorRespond

\* the Go scheduler lets every goroutine that can take a step take one
RenderFairSpec ==
    /\ RenderInit /\ [][RenderNext]_vars
    /\ WF_vars(ExposeStep)
    /\ \A w \in 1..MaxWorkers : WF_vars(WorkerStep(w))
    /\ WF_vars(CollectorStep)

DistSpec == DistInit /\ [][DistNext]_vars

(* ----------------------- sortedInsert on its own ---------------------- *)
\* the timestamps of the samples sortedInsert is called with
InsertStamps == {1, 2, 3}
\* the sample in place i of a queue, with timestamp t: its value tells it
\* apart from the others
Queued(i, t) == [label |-> <<>>, timestampMs |-> t, value |-> i]
\* the slices sorted by non-decreasing timestamp of up to MaxQueue samples,
\* full or with one spare place in the backing array
SortedQueues ==
    LET stamps == UNION {[1..n -> InsertStamps] : n \in 0..MaxQueue}
        sorted == {ts \in stamps : \A i \in 1..(Len(ts) - 1) : ts[i] <= ts[i + 1]}
    IN {[arr |-> [i \in 1..(Len(ts) + spare) |->
                     IF i <= Len(ts) THEN Queued(i, ts[i]) ELSE ZeroMetric],
         len |-> Len(ts)] : ts \in sorted, spare \in {0, 1}}

\* sortedInsert is about to be called with a sorted queue and a sample
InsertInit ==
    /\ metricFamiliesByName = EmptyStore
    /\ stats = InitStats
    /\ limit = 0 /\ hubLimit = 0 /\ hubSize = 0 /\ mutex = 0
    /\ reqs = <<>> /\ admitted = <<>>
    /\ env = [conc |-> 0, tag |-> FALSE, lines |-> {}, sizes |-> {}]
    /\ RenderIdle
    /\ DistIdle
    /\ \E data \in SortedQueues, t \in InsertStamps :
         unit = [pc |-> "call", data |-> data, el |-> Queued(0, t),
                 out |-> [arr |-> <<>>, len |-> 0]]

\* lines 872-878: the call returns
sortedInsertCall ==
    /\ unit.pc = "call"
    /\ unit' = [unit EXCEPT !.pc = "done", !.out = sortedInsert(unit.data, unit.el)]
    /\ UNCHANGED <<hubVars, renderVars, distVars>>

InsertNext == sortedInsertCall

InsertSpec == InsertInit /\ [][InsertNext]_vars

(* ------------------------------ properties ---------------------------- *)
counter == stats.currentCountDatapoints
Quiescent == \A r \in Reqs : ~Active(r)
IsScrape(r) == reqs[r].kind = "scrape"
IsReceive(r) == reqs[r].kind = "receive"
IsDebug(r) == reqs[r].kind = "debug"

Sorted(q) == \A i \in 1..(Len(q) - 1) : q[i].timestampMs <= q[i + 1].timestampMs
StoreSorted(m) ==
    \A nm \in DOMAIN m : \A k \in DOMAIN m[nm].metrics : Sorted(Elems(m[nm].metrics[k]))
\* the lines of a block that belong to series k
SeriesLines(block, k) ==
    LET InSeries(x) == makeLabeledName(x, block.name) = k
    IN SelectSeq(block.lines, InSeries)
ExpositionSorted(e) ==
    \A nm \in DOMAIN e :
        \A i \in DOMAIN e[nm].lines :
            Sorted(SeriesLines(e[nm], makeLabeledName(e[nm].lines[i], nm)))

\* samples of a store that carry value v
CountValue(m, v) ==
    LET InQueue(q) == Cardinality({i \in 1..q.len : q.arr[i].value = v})
        InFamily(f) == SumOver([k \in DOMAIN f.metrics |-> InQueue(f.metrics[k])],
                               DOMAIN f.metrics)
    IN SumOver([nm \in DOMAIN m |-> InFamily(m[nm])], DOMAIN m)

\* C1 (SeqSpec): a scrape that did not time out emits as many samples as the
\* pushes merged into the store since the previous scrape.
C1_Conservation ==
    \A r \in Reqs :
        (IsScrape(r) /\ reqs[r].pc \in {"stats", "ret"} /\ ~reqs[r].timedOut)
            => SampleLines(reqs[r].body) = SumOver(reqs[r].adm, DOMAIN reqs[r].adm)

\* C2 (SeqSpec): every series queue of the live store and of a drained snapshot
\* has non-decreasing timestamps, and the text of a scrape lists the samples
\* of each series in non-decreasing timestamp order.
C2_OrderPreserved ==
    /\ StoreSorted(metricFamiliesByName)
    /\ \A r \in Reqs :
         IsScrape(r) =>
            /\ StoreSorted(reqs[r].snap)
            /\ reqs[r].pc \in {"stats", "ret"} => ExpositionSorted(reqs[r].body)

\* C2 witness: an out-of-order sample was inserted in place into a queue of
\* three samples (the backing array holds the sample shifted out of sight),
\* and a scrape is about to answer with a series of two samples.
C2_Witness ==
    \/ \E nm \in DOMAIN metricFamiliesByName :
         \E k \in DOMAIN metricFamiliesByName[nm].metrics :
            LET q == metricFamiliesByName[nm].metrics[k]
            IN q.len >= 3 /\ q.len < Cap(q) /\ q.arr[q.len + 1] # ZeroMetric
                /\ q.arr[1].timestampMs < q.arr[q.len].timestampMs
    \/ \E r \in Reqs :
         /\ IsScrape(r) /\ reqs[r].pc = "ret"
         /\ \E nm \in DOMAIN reqs[r].body :
              LET ls == reqs[r].body[nm].lines
              IN Len(ls) >= 3 /\ \E i, j \in DOMAIN ls : ls[i].timestampMs < ls[j].timestampMs

\* C3 (Spec): with a limit L > 0 the store never holds more than L samples.
C3_AdmissionSafety ==
    limit > 0 => StoreSize(metricFamiliesByName) <= limit

\* C4 (SeqSpec): when no request is being handled the buffered-sample counter
\* equals the sum of the series queue lengths of the live store.
C4_CounterMatchesStore ==
    Quiescent => counter = StoreSize(metricFamiliesByName)

\* C5 (Spec): the step that swaps the store out leaves the counter at zero and
\* the step that merges a push leaves it raised by the size of the push.
C5_CounterInCriticalSection ==
    [][\A r \in Reqs :
          /\ (IsScrape(r) /\ reqs[r].pc = "swap" /\ reqs'[r].pc = "render")
                => stats'.currentCountDatapoints = 0
          /\ (IsReceive(r) /\ reqs[r].pc = "merge" /\ reqs'[r].pc = "stats")
                => stats'.currentCountDatapoints = counter + reqs[r].n]_vars

\* C6 (Spec): when a scrape that no push overlapped returns, the live store is
\* empty and the counter is zero; and the scrape that arrives next, with no
\* push in between, drains a store whose text has no sample line.
C6_DrainOnScrape ==
    [][\A r \in Reqs :
          /\ (IsScrape(r) /\ reqs[r].pc = "ret" /\ reqs'[r].pc = "done" /\ reqs[r].alone)
                => /\ metricFamiliesByName' = EmptyStore
                   /\ stats'.currentCountDatapoints = 0
          /\ (/\ IsScrape(r) /\ reqs[r].pc = "swap" /\ reqs'[r].pc = "render"
              /\ reqs[r].alone
              /\ r > 1 /\ reqs[r - 1].kind = "scrape" /\ reqs[r - 1].pc = "done"
              /\ reqs[r - 1].alone)
                => \A e \in Expositions(reqs'[r].snap) : SampleLines(e) = 0]_vars

\* C7 (Spec): the snapshot a scrape drains holds, of every push, either all of
\* its samples (the push was merged since the previous drain) or none.
C7_PushAtomicVisible ==
    \A r \in Reqs :
        (IsScrape(r) /\ reqs[r].pc = "render")
            => \A v \in DOMAIN reqs[r].adm :
                  CountValue(reqs[r].snap, v) = reqs[r].adm[v]

\* C8 (PairSpec): the limit check answers 406 exactly when the limit is
\* positive and counter + n exceeds it, and the refusal changes neither the
\* store nor the counter nor the last-receive stats.
C8_OverfillDecision ==
    [][\A r \in Reqs :
          (IsReceive(r) /\ reqs[r].pc = "check" /\ reqs'[r].pc # "check")
             => /\ (reqs'[r].code = StatusNotAcceptable)
                      <=> (limit > 0 /\ counter + reqs[r].n > limit)
                /\ reqs'[r].code = StatusNotAcceptable
                      => /\ reqs'[r].pc = "done"
                         /\ UNCHANGED <<metricFamiliesByName, stats, hubSize>>
                /\ reqs'[r].code # StatusNotAcceptable
                      => reqs'[r].pc = "lock" /\ reqs'[r].code = 0]_vars

\* C8 witness: the counter stands exactly at a positive limit (a push that
\* filled the hub to the limit was accepted) and a push has been refused.
C8_Witness ==
    /\ limit > 0 /\ counter = limit /\ StoreSize(metricFamiliesByName) = limit
    /\ \E r \in Reqs : reqs[r].code = StatusNotAcceptable
    /\ \E r \in Reqs : IsReceive(r) /\ reqs[r].code = StatusOK

\* C9 (PairSpec): a push whose body does not parse is answered 400 and leaves
\* the store, the counter and the last-receive stats as they were.
C9_ParseFailure ==
    [][\A r \in Reqs :
          (reqs[r].pc = "idle" /\ reqs'[r].kind = "receive" /\ reqs'[r].pc = "done")
             => /\ reqs'[r].code = StatusBadRequest
                /\ UNCHANGED <<metricFamiliesByName, stats, hubSize>>]_vars

\* C9 witness: a push was answered 400 while the store held samples.
C9_Witness ==
    /\ \E r \in Reqs : IsReceive(r) /\ reqs[r].code = StatusBadRequest
    /\ StoreSize(metricFamiliesByName) > 0
    /\ stats.lastReceiveTime > 0

\* C10 (SeqSpec): no step of a Debug request, verbose or not, changes the
\* live store: its families, their series and every series queue.
C10_DebugNonDraining ==
    [][\A r \in Reqs :
          (reqs'[r].kind = "debug" /\ reqs'[r].pc # reqs[r].pc)
             => metricFamiliesByName' = metricFamiliesByName]_vars

\* C10 witness: a verbose Debug is about to answer with the text of a store
\* of two families that is still in place.
C10_Witness ==
    \E r \in Reqs :
        /\ IsDebug(r) /\ reqs[r].pc = "ret" /\ reqs[r].body.verbose
        /\ SampleLines(reqs[r].body.text) >= 2
        /\ Cardinality(DOMAIN metricFamiliesByName) = 2
        /\ SampleLines(reqs[r].body.text) = StoreSize(metricFamiliesByName)

\* the label pairs of a sample, as a set
LabelSetOf(metric) == {metric.label[i] : i \in DOMAIN metric.label}
\* the label sets of the samples buffered in a family
FamilyLabelSets(f) ==
    UNION {{LabelSetOf(f.metrics[k].arr[i]) : i \in 1..f.metrics[k].len} :
              k \in DOMAIN f.metrics}
\* the series of a store: family name and label set of its buffered samples
DistinctSeries(m) ==
    UNION {{<<nm, ls>> : ls \in FamilyLabelSets(m[nm])} : nm \in DOMAIN m}
\* the places of a store that hold a buffered sample
SamplePlaces(m) ==
    UNION {UNION {{<<nm, k, i>> : i \in 1..m[nm].metrics[k].len} :
                     k \in DOMAIN m[nm].metrics} : nm \in DOMAIN m}
\* how often x occurs in the sequence q
Occurrences(q, x) == Cardinality({i \in DOMAIN q : q[i] = x})
\* the values carried by the sample lines of an exposition
BodyValues(e) ==
    UNION {{e[nm].lines[i].value : i \in DOMAIN e[nm].lines} : nm \in DOMAIN e}

C12_LabelCanonical ==
    [][\A r \in Reqs :
          (IsReceive(r) /\ reqs[r].pc = "merge" /\ reqs'[r].pc = "stats")
             => \A nm \in DOMAIN reqs[r].fams :
                   LET before == IF nm \in DOMAIN metricFamiliesByName
                                 THEN FamilyLabelSets(metricFamiliesByName[nm])
                                 ELSE {}
                       pushed == {LabelSetOf(reqs[r].fams[nm].metric[i]) :
                                     i \in DOMAIN reqs[r].fams[nm].metric}
                       after == metricFamiliesByName'[nm].metrics
                   IN /\ Cardinality(DOMAIN after) = Cardinality(before \cup pushed)
                      /\ \A k \in DOMAIN after :
                            Cardinality({LabelSetOf(after[k].arr[i]) :
                                            i \in 1..after[k].len}) = 1]_vars

\* C12 witness: a push whose two samples carry the same label pairs, first as
\* a, b and then as b, a, has just been merged into a family that held a
\* sample of these labels already; the family has one series of three or more.
C12_Witness ==
    \E r \in Reqs :
        /\ IsReceive(r) /\ reqs[r].pc = "stats"
        /\ \E nm \in DOMAIN reqs[r].fams :
             LET ms == reqs[r].fams[nm].metric
             IN /\ Len(ms) = 2
                /\ ms[1].label[1].name = "a" /\ ms[2].label[1].name = "b"
                /\ LabelSetOf(ms[1]) = LabelSetOf(ms[2])
                /\ Cardinality(DOMAIN metricFamiliesByName[nm].metrics) = 1
                /\ FamilySize(metricFamiliesByName[nm]) >= 3

\* C14 (TagSpec): when the render timeout fires in a Scrape, the live store
\* holds none of the drained samples (it is empty if no push overlapped), the
\* Scrape sets the counter to zero and answers 200 with an empty body, and no
\* later scrape emits a sample that was pushed before the timed-out scrape.
C14_RenderTimeout ==
    [][\A r \in Reqs :
          /\ (IsScrape(r) /\ reqs[r].pc = "render" /\ reqs'[r].pc = "stats"
                  /\ reqs'[r].timedOut)
                => /\ reqs'[r].body = <<>>
                   /\ \A v \in DOMAIN reqs[r].adm :
                         reqs[r].adm[v] > 0 => CountValue(metricFamiliesByName', v) = 0
                   /\ reqs[r].alone => metricFamiliesByName' = EmptyStore
          /\ (IsScrape(r) /\ reqs[r].pc = "stats" /\ reqs'[r].pc = "ret"
                  /\ reqs[r].timedOut)
                => stats'.currentCountDatapoints = 0 /\ stats'.lastScrapeSize = 0
          /\ (IsScrape(r) /\ reqs[r].pc = "ret" /\ reqs'[r].pc = "done"
                  /\ reqs[r].timedOut)
                => reqs'[r].code = StatusOK /\ reqs[r].body = <<>>
          /\ (IsScrape(r) /\ reqs[r].pc = "render" /\ reqs'[r].pc = "stats")
                => \A q \in Reqs :
                      (q < r /\ IsScrape(q) /\ reqs[q].pc = "done" /\ reqs[q].timedOut)
                         => \A v \in BodyValues(reqs'[r].body) : v > q]_vars

\* C14 witness: a push was accepted, the scrape after it timed out, and the
\* scrape after that is about to answer, in time, with a text without samples.
C14_Witness ==
    \E q, r \in Reqs :
        /\ q < r
        /\ reqs[1].kind = "receive" /\ reqs[1].code = StatusOK
        /\ IsScrape(q) /\ reqs[q].pc = "done" /\ reqs[q].timedOut
        /\ IsScrape(r) /\ reqs[r].pc = "ret" /\ ~reqs[r].timedOut
        /\ SampleLines(reqs[r].body) = 0

C20_MergeKeepsBuffered ==
    [][\A r \in Reqs :
          (IsReceive(r) /\ reqs[r].pc = "merge" /\ reqs'[r].pc = "stats")
             => \A nm \in DOMAIN reqs[r].fams \cap DOMAIN metricFamiliesByName :
                   \A k \in DOMAIN metricFamiliesByName[nm].metrics :
                      LET old == Elems(metricFamiliesByName[nm].metrics[k])
                          new == Elems(metricFamiliesByName'[nm].metrics[k])
                          ms == reqs[r].fams[nm].metric
                          merged == Cardinality({i \in DOMAIN ms :
                                                    makeLabeledName(ms[i], nm) = k})
                      IN /\ \A i \in DOMAIN old :
                               Occurrences(new, old[i]) >= Occurrences(old, old[i])
                         /\ Len(new) = Len(old) + merged]_vars

\* the samples buffered in a family, as a set
FamilySamples(f) ==
    UNION {{f.metrics[k].arr[i] : i \in 1..f.metrics[k].len} : k \in DOMAIN f.metrics}

\* C13 (RenderSpec): exposeMetrics never fails, and a text it returns in time
\* has exactly one block for every family of the snapshot that has a name and
\* samples, with all samples of the family, whatever other families the codec
\* refused and whatever the size of the pool.
C13_RenderErrorIsolation ==
    /\ ~expose.panicked
    /\ (expose.pc = "done" /\ ~expose.timedOut)
          => LET rendered == {nm \in DOMAIN expose.arg :
                                 nm # "" /\ FamilySize(expose.arg[nm]) > 0}
                 text == expose.ret
             IN /\ Len(text) = Cardinality(rendered)
                /\ {text[i].name : i \in DOMAIN text} = rendered
                /\ \A i \in DOMAIN text :
                      /\ Len(text[i].lines) = FamilySize(expose.arg[text[i].name])
                      /\ {text[i].lines[j] : j \in DOMAIN text[i].lines}
                            = FamilySamples(expose.arg[text[i].name])

\* the value of the key label of a sample, "" when it has none
KeyValue(met) ==
    LET named == {i \in DOMAIN met.label : met.label[i].name = dist.keyLabel}
    IN IF named = {} THEN "" ELSE met.label[CHOOSE i \in named : TRUE].value
\* the handler has routed every sample of its batch
Routed(c) == calls[c].pc \in {"send", "done", "fatal"}
\* how often the sample met occurs in the families a handler gathered for hub
InHub(c, hub, met) ==
    LET entries == calls[c].distSet[hub]
    IN SumOver([n \in DOMAIN entries |-> Occurrences(Elems(entries[n].metric), met)],
               DOMAIN entries)
\* the samples of the families named n, in the order of the batch, that the
\* ring gives to hub
RECURSIVE RoutedTo(_, _, _)
RoutedTo(families, n, hub) ==
    IF families = <<>> THEN <<>>
    ELSE LET Mine(met) == dist.ring[KeyValue(met)] = hub
         IN (IF Head(families).name = n THEN SelectSeq(Head(families).metric, Mine)
             ELSE <<>>) \o RoutedTo(Tail(families), n, hub)
\* every sample a hub was given or sent, with the hub
Placed ==
    LET In(batch, hub) ==
          UNION {{[hub |-> hub, met |-> batch[n].metric.arr[i]] :
                     i \in 1..batch[n].metric.len} : n \in DOMAIN batch}
    IN UNION {UNION {In(calls[c].distSet[h], h) : h \in DOMAIN calls[c].distSet} :
                 c \in Calls}
       \cup UNION {UNION {In(sent[h][k], h) : k \in DOMAIN sent[h]} : h \in DOMAIN sent}

\* C16 (DistSpec): no handler fails, and once a handler has routed its batch
\* every sample of the batch is once in the families of the hub the ring
\* names for its key value and in those of no other hub (in no hub's when the
\* ring has no node), and the hubs' families hold samples of the batch only.
C16_DistCoverage ==
    \A c \in Calls :
        /\ calls[c].pc # "panic"
        /\ Routed(c) =>
              /\ \A i \in DOMAIN calls[c].batch : \A j \in DOMAIN calls[c].batch[i].metric :
                    LET met == calls[c].batch[i].metric[j]
                    IN \A h \in DOMAIN calls[c].distSet :
                          InHub(c, h, met) =
                             IF DOMAIN dist.ring # {} /\ dist.ring[KeyValue(met)] = h
                             THEN 1 ELSE 0
              /\ \A h \in DOMAIN calls[c].distSet : \A n \in DOMAIN calls[c].distSet[h] :
                    \A k \in 1..calls[c].distSet[h][n].metric.len :
                       \E i \in DOMAIN calls[c].batch :
                          \E j \in DOMAIN calls[c].batch[i].metric :
                             calls[c].batch[i].metric[j] = calls[c].distSet[h][n].metric.arr[k]

\* C17 (DistSpec): any two samples with the same value of the key label, of
\* any families and any requests, are given and sent to the same hub.
C17_DistDeterminism ==
    \A p, q \in Placed : KeyValue(p.met) = KeyValue(q.met) => p.hub = q.hub

\* C17 witness: two requests were forwarded to two hubs; a key value occurs
\* in the first and in the second family of a batch, and one hub holds a
\* sample without the key label next to a sample with it.
C17_Witness ==
    /\ \A c \in Calls : calls[c].pc = "done"
    /\ dist.keyLabel = "host"
    /\ \E p, q \in Placed : p.hub # q.hub
    /\ \E p, q \in Placed :
          /\ KeyValue(p.met) = KeyValue(q.met)
          /\ p.met.value \div 10 # q.met.value \div 10
    /\ \E p, q \in Placed :
          p.hub = q.hub /\ KeyValue(p.met) = "" /\ KeyValue(q.met) # ""

\* C18 (DistSpec): a step of a handler at a sample for which the ring has no
\* node leaves the fan-out map as it was and moves on to the next sample.
C18_RouteErrorDrops ==
    [][\A c \in Calls :
          (/\ calls[c].pc = "route" /\ calls'[c] # calls[c]
           /\ calls[c].i <= Len(calls[c].families)
           /\ DOMAIN dist.ring = {})
             => /\ calls'[c].pc = "route"
                /\ calls'[c].distSet = calls[c].distSet
                /\ <<calls'[c].i, calls'[c].j>> # <<calls[c].i, calls[c].j>>]_vars

\* C19 (DistSpec): once a handler has routed its batch, the families it
\* gathered for a hub are exactly the names with a sample routed to that hub;
\* each carries name, type and help of the source family and the routed
\* samples of the families of that name in the order of the batch; the batch
\* is as it was received.
C19_DistAggregation ==
    \A c \in Calls :
        Routed(c) =>
           /\ calls[c].families = calls[c].batch
           /\ \A h \in DOMAIN calls[c].distSet :
                 LET names == {calls[c].batch[i].name : i \in DOMAIN calls[c].batch}
                     entries == calls[c].distSet[h]
                 IN /\ DOMAIN entries =
                          {n \in names : RoutedTo(calls[c].batch, n, h) # <<>>}
                    /\ \A n \in DOMAIN entries :
                          /\ Elems(entries[n].metric) = RoutedTo(calls[c].batch, n, h)
                          /\ \E i \in DOMAIN calls[c].batch :
                                /\ calls[c].batch[i].name = n
                                /\ entries[n].name = n
                                /\ entries[n].type = calls[c].batch[i].type
                                /\ entries[n].help = calls[c].batch[i].help

\* C19 witness: a batch of two families of one name was routed; one hub holds
\* one entry with samples of both families, the other hub holds an entry too.
C19_Witness ==
    \E c \in Calls :
        /\ Routed(c)
        /\ Len(calls[c].batch) = 2 /\ calls[c].batch[1].name = calls[c].batch[2].name
        /\ \E h1, h2 \in DOMAIN calls[c].distSet :
              /\ h1 # h2
              /\ DOMAIN calls[c].distSet[h2] # {}
              /\ \E n \in DOMAIN calls[c].distSet[h1] :
                    LET q == Elems(calls[c].distSet[h1][n].metric)
                    IN Len(q) >= 2 /\ q[1].value \div 10 # q[Len(q)].value \div 10

\* C21 (InsertSpec): for a queue sorted by non-decreasing timestamp and a
\* sample el, the slice sortedInsert returns has one sample more, is sorted,
\* holds el at the first index whose timestamp is strictly greater than el's
\* (behind every sample of the same timestamp), and holds the other samples
\* in their previous order before and behind el.
C21_SortedInsert ==
    unit.pc = "done" =>
       LET old == Elems(unit.data)
           q == Elems(unit.out)
           k == Cardinality({i \in DOMAIN old :
                                old[i].timestampMs <= unit.el.timestampMs}) + 1
       IN /\ Len(q) = Len(old) + 1
          /\ Sorted(q)
          /\ q[k] = unit.el
          /\ \A i \in DOMAIN old : (i < k => q[i] = old[i]) /\ (i >= k => q[i + 1] = old[i])
          /\ \A i \in DOMAIN old : i >= k => old[i].timestampMs > unit.el.timestampMs

\* C21 witness: el went into the middle of a queue of three or more, right
\* behind a sample of its own timestamp and before a later one.
C21_Witness ==
    /\ unit.pc = "done"
    /\ unit.data.len >= 3
    /\ \E k \in 2..unit.data.len :
          /\ unit.out.arr[k] = unit.el
          /\ unit.out.arr[k - 1].timestampMs = unit.el.timestampMs
          /\ unit.out.arr[k + 1].timestampMs > unit.el.timestampMs

\* the sample lines of an exposition that carry value v
BodyCount(e, v) ==
    SumOver([nm \in DOMAIN e |->
                Cardinality({i \in DOMAIN e[nm].lines : e[nm].lines[i].value = v})],
            DOMAIN e)

\* C22 (OverlapSpec): a scrape that renders does not hold the mutex; a push
\* merged while a scrape was rendering has no sample in the text of that
\* scrape, and the scrape that drains next and answers in time has all of its
\* samples in its text (and no later scrape has any).
C22_PushDuringRender ==
    [][\A r \in Reqs :
          /\ (IsScrape(r) /\ reqs[r].pc = "render") => mutex # r
          /\ (IsScrape(r) /\ reqs[r].pc = "render" /\ reqs'[r].pc = "stats"
                  /\ ~reqs'[r].timedOut)
                => \A p \in Reqs :
                      (IsReceive(p) /\ reqs[p].during)
                         => BodyCount(reqs'[r].body, p) = reqs[r].adm[p]]_vars

\* the families of the snapshot that the codec accepts
Renders(m) ==
    {nm \in DOMAIN m :
        ~familyToString(popDatapoints(m[nm], SetToSeq(DOMAIN m[nm].metrics)).pulled).err}

\* C23 (RenderSpec): no family of the snapshot is received by the workers
\* more than once; when exposeMetrics has closed the channel and waited for
\* the workers every family was received once; and a text returned in time
\* has one block for each family the codec accepts and no other block.
C23_EachFamilyOnce ==
    /\ expose.pc \notin {"idle", "call"}
          => \A nm \in DOMAIN expose.arg : expose.taken[nm] <= 1
    /\ expose.pc \in {"select", "done"}
          => \A nm \in DOMAIN expose.arg : expose.taken[nm] = 1
    /\ (expose.pc = "done" /\ ~expose.timedOut)
          => LET text == expose.ret
                 Blocks(nm) == {i \in DOMAIN text : text[i].name = nm}
             IN /\ \A nm \in DOMAIN expose.arg :
                      Cardinality(Blocks(nm)) = IF nm \in Renders(expose.arg) THEN 1 ELSE 0
                /\ Len(text) = Cardinality(Renders(expose.arg))

\* C23 witness: one worker served a snapshot of three families; the text came
\* in time with two blocks, the third family was refused by the codec.
C23_Witness ==
    /\ expose.pc = "done" /\ ~expose.timedOut
    /\ expose.workers = 1
    /\ Cardinality(DOMAIN expose.arg) = 3
    /\ Len(expose.ret) = 2
    /\ expose.ret[1].name # expose.ret[2].name

\* exposeMetrics has returned and every goroutine it started has left
RenderDone ==
    /\ expose.pc = "done"
    /\ \A w \in Workers : pool[w].pc = "done"
    /\ collector.pc = "done"

\* C24 (RenderFairSpec): under fair scheduling every call of exposeMetrics,
\* for any snapshot and pool size, comes to the point where it has returned,
\* every worker has left and the strings worker has left, whether the text
\* came in time or the timeout fired.
C24_RenderTerminates == <>RenderDone

\* C25 (RenderSpec): as long as exposeMetrics has not returned and a worker
\* is still rendering a family or handing in its string, the timeout can
\* fire and make exposeMetrics return the empty text at that point.
C25_TimeoutSupervisesRender ==
    (/\ Running /\ expose.pc # "done"
     /\ \E w \in Workers : pool[w].pc \in {"pop", "send"})
        => ENABLED ExposeTimeout

\* C26 (AdmitSpec): the limit check refuses a push exactly when the limit is
\* positive and the counter plus the size of the push exceeds it; a refused
\* push leaves nothing behind (store, stats, limit, mutex and gauges are as
\* before); and the push that follows a scrape that has returned is accepted
\* when it has at most L samples.
C26_AdmissionStateless ==
    [][\A r \in Reqs :
          (IsReceive(r) /\ reqs[r].pc = "check" /\ reqs'[r].pc # "check")
             => LET refused == reqs'[r].code = StatusNotAcceptable
                IN /\ refused <=> (limit > 0 /\ counter + reqs[r].n > limit)
                   /\ refused => UNCHANGED <<metricFamiliesByName, stats, limit,
                                             mutex, hubSize, hubLimit, admitted>>
                   /\ (/\ r > 1 /\ IsScrape(r - 1) /\ reqs[r - 1].pc = "done"
                       /\ reqs[r].n <= limit)
                         => ~refused]_vars

\* C26 witness: a push was accepted, the next was refused, a scrape returned
\* and the push after it was accepted and filled the hub to its limit.
C26_Witness ==
    \E r \in Reqs :
        /\ r > 3
        /\ IsReceive(r - 3) /\ reqs[r - 3].code = StatusOK
        /\ IsReceive(r - 2) /\ reqs[r - 2].code = StatusNotAcceptable
        /\ IsScrape(r - 1) /\ reqs[r - 1].pc = "done"
        /\ IsReceive(r) /\ reqs[r].code = StatusOK
        /\ hubSize = limit

\* C27 (MetaSpec): no step changes name, type or help of a family that is
\* and stays in the live store; a merge into such a family keeps its series
\* and leaves in its queues only samples that were buffered or were pushed.
C27_FamilyMetadataFixed ==
    [][/\ \A nm \in DOMAIN metricFamiliesByName \cap DOMAIN metricFamiliesByName' :
             metricFamiliesByName'[nm].family = metricFamiliesByName[nm].family
       /\ \A r \in Reqs :
             (IsReceive(r) /\ reqs[r].pc = "merge" /\ reqs'[r].pc = "stats")
                => \A nm \in DOMAIN reqs[r].fams \cap DOMAIN metricFamiliesByName :
                      LET old == metricFamiliesByName[nm]
                          new == metricFamiliesByName'[nm]
                          ms == reqs[r].fams[nm].metric
                      IN /\ DOMAIN old.metrics \subseteq DOMAIN new.metrics
                         /\ FamilySamples(new) \subseteq
                               FamilySamples(old) \cup {Canon(ms[i]) : i \in DOMAIN ms}]_vars

\* C27 witness: a push that names the family as a counter with help h2 has
\* just been merged into the family stored as a gauge with help h1, which now
\* holds two samples or more and is still a gauge with help h1.
C27_Witness ==
    \E r \in Reqs :
        /\ IsReceive(r) /\ reqs[r].pc = "stats"
        /\ "mf1" \in DOMAIN reqs[r].fams /\ "mf1" \in DOMAIN metricFamiliesByName
        /\ reqs[r].fams["mf1"].type = "counter" /\ reqs[r].fams["mf1"].help = "h2"
        /\ metricFamiliesByName["mf1"].family.type = "gauge"
        /\ metricFamiliesByName["mf1"].family.help = "h1"
        /\ FamilySize(metricFamiliesByName["mf1"]) >= 2

\* C28 (NameSpec): every series queue of the live store holds samples of one
\* label set only, so samples of one family with different label sets are in
\* different queues, whatever characters their label names and values hold.
C28_SeriesInjective ==
    \A nm \in DOMAIN metricFamiliesByName :
        \A k \in DOMAIN metricFamiliesByName[nm].metrics :
            LET q == metricFamiliesByName[nm].metrics[k]
            IN \A i, j \in 1..q.len : LabelSetOf(q.arr[i]) = LabelSetOf(q.arr[j])

\* C29 (NilSpec): the merge of every parsed batch, with or without
\* timestamps on its samples, completes (the handler goes on to its stats)
\* and leaves the store larger by the number of samples of the batch.
C29_MergeNeverFails ==
    [][\A r \in Reqs :
          (IsReceive(r) /\ reqs[r].pc = "merge" /\ reqs'[r].pc # "merge")
             => /\ reqs'[r].pc = "stats" /\ ~reqs'[r].panicked
                /\ StoreSize(metricFamiliesByName')
                      = StoreSize(metricFamiliesByName) + reqs[r].n]_vars

\* request r makes a step of its handler
Steps(r) == reqs'[r] # reqs[r]

\* the step is a read of the live family map and its series queues by the
\* Debug request r: the counting pass or the verbose render
DebugReadsStore(r) ==
    /\ Steps(r) /\ reqs'[r].kind = "debug"
    /\ \/ reqs[r].pc = "idle"
       \/ reqs[r].pc = "report" /\ reqs'[r].body.verbose

\* the step is a read or a write of the hub counters by request r
TouchesCounters(r) ==
    /\ Steps(r)
    /\ reqs[r].pc \in {"check", "stats", "count", "write", "report"}

\* another request is inside the critical section of its merge or drain
StoreMutating(r) == mutex \notin {0, r}

\* another push is between the read and the write of its "+=" on the counter
CountersMutating(r) ==
    \E q \in Reqs \ {r} : reqs[q].kind = "receive" /\ reqs[q].pc = "count"

\* C30 (Spec): no Debug request reads the live store while another request
\* holds the store mutex, and no request reads or writes the hub counters
\* while another request is in the middle of its update of them.
C30_StoreAccessUnderMutex ==
    [][\A r \in Reqs :
          /\ DebugReadsStore(r) => ~StoreMutating(r)
          /\ TouchesCounters(r) => ~CountersMutating(r)]_vars

=============================================================================
